---- MODULE Spec2Model ----
(***************************************************************************)
(* The Flappy Bird game of src/pygame/flappy.py as a state machine: the    *)
(* entity model (Bird, Pipe), the per-frame simulation step (Game.update), *)
(* the input handlers (Game.handle_input, Game.handle_jump,                *)
(* GPIOManager.is_pressed) and the frame loop of Game.run.                 *)
(*                                                                         *)
(* Units.  Bird.y and Bird.velocity are Python floats holding sums of 0.8, *)
(* -8, 10 and 300.  They are kept here as exact integers in tenths of a    *)
(* pixel (Scale) together with the sign of the float's rounding error,     *)
(* bird.err: the float is the exact value, or a hair below or above it.    *)
(* The sign is not computed: after every Bird.update it is any of -1, 0,   *)
(* 1.  It matters only where the exact value is a whole number of pixels:  *)
(* in the comparisons of y with 0 and SCREEN_HEIGHT, and when y - 15 is    *)
(* assigned to a pygame.Rect coordinate, which truncates the float toward  *)
(* zero (ToInt).  Everything else the code keeps as an int (pipe x,        *)
(* rectangles, score, timer) is in pixels or frames.  Times are in         *)
(* milliseconds.                                                           *)
(*                                                                         *)
(* Specifications.  Spec is keyboard play and SpecGpio touch-sensor play   *)
(* in a loop that is never left; SpecCeiling adds taps near the ceiling,   *)
(* SpecSound either outcome of the mixer's set-up, and SpecRun the whole   *)
(* of main: a failing Game(), quit requests, exceptions in the loop,       *)
(* cleanup and the exit code.  SpecUnattended is keyboard play that the    *)
(* player abandons in some frame of a round, with the loop going on.       *)
(***************************************************************************)
EXTENDS Integers, Sequences, FiniteSets, TLC

\* ------------------------------------------------------------ constants
SCREEN_WIDTH == 800
SCREEN_HEIGHT == 600
\* tenths of a pixel per pixel: the fixed-point unit of Bird.y and Bird.velocity
Scale == 10
\* GRAVITY = 0.8 pixels per frame, in tenths
GRAVITY == 8
\* JUMP_STRENGTH = -8 pixels per frame, in tenths
JUMP_STRENGTH == -80
\* the literal 10 of Bird.update (maximum fall speed), in tenths
MAX_FALL == 100
BIRD_SIZE == 30
PIPE_WIDTH == 80
PIPE_GAP == 200
PIPE_SPEED == 3
\* self.pipe_interval, set by reset_game and never changed
PIPE_INTERVAL == 120
\* DEBOUNCE_TIME = 0.2 seconds, in milliseconds
DEBOUNCE_TIME == 200

\* --------------------------------------------------------------- bounds
\* A round is explored until its score reaches MaxScore.
MaxScore == 2
\* A player who is going to walk away taps only while the score is below
\* LeaveScore (SpecUnattended).
LeaveScore == 1
\* Duration of one frame of Game.run in milliseconds.  clock.tick(FPS) only
\* makes a frame last at least 1000/60 ms; a slower frame is possible.
FrameMs == 50
\* While a round is Active the player offers a jump input (key or pin) only
\* in the frames whose spawn timer is in JumpFrames; Idle and Over rounds
\* take input in every frame.
JumpFrames == {t \in 0..(PIPE_INTERVAL - 1) : t % 16 = 0}
\* The gap centres random.randint is taken to return: the two ends of its
\* range [PIPE_GAP/2 + 50, SCREEN_HEIGHT - PIPE_GAP/2 - 50].
GapChoices ==
    {PIPE_GAP \div 2 + 50, SCREEN_HEIGHT - PIPE_GAP \div 2 - 50}

\* ------------------------------------------------------------- helpers
\* int(f) as pygame.Rect stores a float coordinate f, toward zero, for the
\* float whose exact value is t tenths and whose rounding error has sign e
ToInt(t, e) ==
    IF t % Scale # 0
    THEN (IF t >= 0 THEN t \div Scale ELSE -((-t) \div Scale))
    ELSE IF e < 0 /\ t > 0 THEN t \div Scale - 1
    ELSE IF e > 0 /\ t < 0 THEN t \div Scale + 1
    ELSE t \div Scale

\* f <= 0 and f >= limit for such a float f (limit a whole number, in tenths)
FloatLE(t, e, limit) ==
    t < limit \/ (t = limit /\ e <= 0)

FloatGE(t, e, limit) ==
    t > limit \/ (t = limit /\ e >= 0)

Rect(x, y, w, h) ==
    [x |-> x, y |-> y, w |-> w, h |-> h]

\* pygame.Rect.colliderect: the interiors overlap (touching edges do not)
colliderect(a, b) ==
    /\ a.x < b.x + b.w
    /\ b.x < a.x + a.w
    /\ a.y < b.y + b.h
    /\ b.y < a.y + a.h

\* list.remove(ref): the list without the first occurrence of ref
RECURSIVE ListRemove(_, _)
ListRemove(s, ref) ==
    IF s = <<>> THEN <<>>
    ELSE IF Head(s) = ref THEN Tail(s)
    ELSE <<Head(s)>> \o ListRemove(Tail(s), ref)

\* --------------------------------------------------------------- Bird
BirdInit(x, y) ==
    [x |-> x, y |-> y * Scale, err |-> 0, velocity |-> 0, size |-> BIRD_SIZE,
     rect |-> Rect(x - BIRD_SIZE \div 2, y - BIRD_SIZE \div 2, BIRD_SIZE, BIRD_SIZE)]

\* mutant: the jump adds to the velocity
BirdJumpAdds(b) ==
    [b EXCEPT !.velocity = @ + JUMP_STRENGTH]

BirdJump(b) ==
    [b EXCEPT !.velocity = JUMP_STRENGTH]

\* mutant: the fall speed is clamped before the position is advanced
BirdUpdateClampFirst(b, fl) ==
    LET v0 == b.velocity + GRAVITY
        v == IF v0 > MAX_FALL THEN MAX_FALL ELSE v0
        y == b.y + v
    IN  [b EXCEPT !.velocity = v,
                  !.y = y,
                  !.err = fl.y,
                  !.rect = Rect(b.x - b.size \div 2,
                                ToInt(y - (b.size \div 2) * Scale, fl.rect),
                                b.rect.w, b.rect.h)]

\* The rounding errors one Bird.update can leave: fl.y is the error sign of
\* the new y, fl.rect that of y - 15.  The subtraction is exact for
\* y >= 7.5 and may round the error away below that.
FloatErrs(b) ==
    LET y == b.y + b.velocity + GRAVITY
    IN  IF y % Scale # 0 THEN {[y |-> 0, rect |-> 0]}
        ELSE {fl \in [y : {-1, 0, 1}, rect : {-1, 0, 1}] :
                \/ fl.rect = fl.y
                \/ fl.rect = 0 /\ 2 * y < (BIRD_SIZE \div 2) * Scale}

\* Bird.update, for rounding errors fl of its float sums
BirdUpdate(b, fl) ==
    LET v == b.velocity + GRAVITY
        y == b.y + v
    IN  [b EXCEPT !.velocity = IF v > MAX_FALL THEN MAX_FALL ELSE v,
                  !.y = y,
                  !.err = fl.y,
                  !.rect = Rect(b.x - b.size \div 2,
                                ToInt(y - (b.size \div 2) * Scale, fl.rect),
                                b.rect.w, b.rect.h)]

\* --------------------------------------------------------------- Pipe
\* credit is an observer, not a field of the code: how often the score was
\* increased on this pipe's account.
PipeInit(x, gap_y) ==
    [x |-> x, gap_y |-> gap_y, width |-> PIPE_WIDTH, gap_height |-> PIPE_GAP,
     passed |-> FALSE,
     top_rect |-> Rect(x, 0, PIPE_WIDTH, gap_y - PIPE_GAP \div 2),
     bottom_rect |-> Rect(x, gap_y + PIPE_GAP \div 2, PIPE_WIDTH,
                          SCREEN_HEIGHT - (gap_y + PIPE_GAP \div 2)),
     credit |-> 0]

\* mutant: the lower rectangle is left behind
PipeUpdateTopOnly(p) ==
    [p EXCEPT !.x = p.x - PIPE_SPEED,
              !.top_rect.x = p.x - PIPE_SPEED]

PipeUpdate(p) ==
    [p EXCEPT !.x = p.x - PIPE_SPEED,
              !.top_rect.x = p.x - PIPE_SPEED,
              !.bottom_rect.x = p.x - PIPE_SPEED]

PipeCollidesWith(p, bird_rect) ==
    colliderect(bird_rect, p.top_rect) \/ colliderect(bird_rect, p.bottom_rect)

PipeIsOffScreen(p) ==
    p.x + p.width < 0

\* -------------------------------------------------------------- state
VARIABLES
    bird,           \* Game.bird: [x, y, velocity, size, rect]
    pipes,          \* Game.pipes: the live sequence of Pipe records
    score,          \* Game.score
    game_over,      \* Game.game_over
    game_started,   \* Game.game_started
    pipe_timer,     \* Game.pipe_timer
    gpio_available, \* GPIOManager.gpio_available
    since_press,    \* time.time() - GPIOManager.last_press_time, saturated
    pc,             \* position in one pass of the loop of Game.run
    pin,            \* environment: the outcome of the last GPIO.input read
    cues,           \* observer: the SoundManager.play calls of the last step
    pressed,        \* observer: what the last is_pressed call returned
    since_accept,   \* observer: time since is_pressed last returned True
    end_games,      \* observer: end_game calls since the last reset_game
    removed,        \* observer: the credit of each pipe removed since reset_game
    sounds_enabled, \* SoundManager.sounds_enabled
    running,        \* the local "running" of Game.run
    exit_code,      \* what main returns to sys.exit; -1 while it has not returned
    fault,          \* observer: what stopped the process, if not a quit request
    released,       \* observer: the resources Game.cleanup released, in order
    stages,         \* observer: the stages of the current frame that completed
    played,         \* observer: the cues of the last step that sounded
    attended        \* environment: a player is at the controls

vars ==
    <<bird, pipes, score, game_over, game_started, pipe_timer, gpio_available,
      since_press, pc, pin, cues, pressed, since_accept, end_games, removed,
      sounds_enabled, running, exit_code, fault, released, stages, played,
      attended>>

\* the variables only the start and the end of the process change
process ==
    <<sounds_enabled, running, exit_code, fault, released>>

\* The Game object's simulation fields (with the observers the handlers
\* feed) as one record, so that the handlers are functions on it.
G ==
    [bird |-> bird, pipes |-> pipes, score |-> score, game_over |-> game_over,
     game_started |-> game_started, pipe_timer |-> pipe_timer,
     cues |-> <<>>, end_games |-> end_games, removed |-> removed,
     played |-> <<>>, sounds_enabled |-> sounds_enabled, failing |-> {}]

SetGame(g) ==
    /\ bird' = g.bird
    /\ pipes' = g.pipes
    /\ score' = g.score
    /\ game_over' = g.game_over
    /\ game_started' = g.game_started
    /\ pipe_timer' = g.pipe_timer
    /\ cues' = g.cues
    /\ end_games' = g.end_games
    /\ removed' = g.removed
    /\ played' = g.played

SetGameInit(g) ==
    /\ bird = g.bird
    /\ pipes = g.pipes
    /\ score = g.score
    /\ game_over = g.game_over
    /\ game_started = g.game_started
    /\ pipe_timer = g.pipe_timer
    /\ cues = g.cues
    /\ end_games = g.end_games
    /\ removed = g.removed
    /\ played = g.played

\* ------------------------------------------------------------ handlers
\* Game.reset_game: a fresh bird, no pipes, zero score, both flags down
ResetGame ==
    [bird |-> BirdInit(SCREEN_WIDTH \div 4, SCREEN_HEIGHT \div 2),
     pipes |-> <<>>, score |-> 0, game_over |-> FALSE, game_started |-> FALSE,
     pipe_timer |-> 0, cues |-> <<>>, end_games |-> 0, removed |-> <<>>,
     played |-> <<>>]

\* the cues SoundManager._create_sounds makes
CueNames ==
    {"jump", "score", "collision"}

\* mutant: play without the sounds_enabled test
PlayWhenDisabled(g, sound_name) ==
    [g EXCEPT !.cues = Append(@, sound_name),
              !.played = IF sound_name \notin g.failing
                         THEN Append(@, sound_name) ELSE @]

\* SoundManager.play: the cue is requested (cues); it sounds (played) if
\* sounds are enabled and Sound.play does not raise pygame.error, which is
\* swallowed.  g.failing are the cues whose Sound.play raises in this step.
Play(g, sound_name) ==
    [g EXCEPT !.cues = Append(@, sound_name),
              !.played = IF g.sounds_enabled /\ sound_name \in CueNames
                            /\ sound_name \notin g.failing
                         THEN Append(@, sound_name) ELSE @]

\* mutant: handle_jump without its game_over test
HandleJumpAlways(g) ==
    Play([g EXCEPT !.game_started = TRUE, !.bird = BirdJump(g.bird)], "jump")

HandleJump(g) ==
    IF ~g.game_over
    THEN Play([g EXCEPT !.game_started = TRUE, !.bird = BirdJump(g.bird)], "jump")
    ELSE g

\* mutant: the pipe scores once the bird's box has cleared it
PipeStepScoresOnClearance(st, bird_x, i) ==
    LET p1 == PipeUpdate(st.objs[i])
        scores == ~p1.passed /\ p1.x + p1.width < bird_x - BIRD_SIZE \div 2
        p2 == IF scores
              THEN [p1 EXCEPT !.passed = TRUE, !.credit = @ + 1]
              ELSE p1
        off == PipeIsOffScreen(p2)
    IN  [objs |-> [st.objs EXCEPT ![i] = p2],
         live |-> IF off THEN ListRemove(st.live, i) ELSE st.live,
         score |-> IF scores THEN st.score + 1 ELSE st.score,
         cues |-> IF scores THEN Append(st.cues, "score") ELSE st.cues,
         removed |-> IF off THEN Append(st.removed, p2.credit) ELSE st.removed]

\* mutant: the loop body of update_pipes without "pipe.passed = True"
PipeStepNoFlag(st, bird_x, i) ==
    LET p1 == PipeUpdate(st.objs[i])
        scores == ~p1.passed /\ p1.x + p1.width < bird_x
        p2 == IF scores THEN [p1 EXCEPT !.credit = @ + 1] ELSE p1
        off == PipeIsOffScreen(p2)
    IN  [objs |-> [st.objs EXCEPT ![i] = p2],
         live |-> IF off THEN ListRemove(st.live, i) ELSE st.live,
         score |-> IF scores THEN st.score + 1 ELSE st.score,
         cues |-> IF scores THEN Append(st.cues, "score") ELSE st.cues,
         removed |-> IF off THEN Append(st.removed, p2.credit) ELSE st.removed]

\* The body of the for loop of update_pipes for the i-th pipe of the
\* snapshot self.pipes[:].  st.objs are the Pipe objects in snapshot order,
\* st.live the live list self.pipes as references (indices) into them.
PipeStep(st, bird_x, i) ==
    LET p1 == PipeUpdate(st.objs[i])
        scores == ~p1.passed /\ p1.x + p1.width < bird_x
        p2 == IF scores
              THEN [p1 EXCEPT !.passed = TRUE, !.credit = @ + 1]
              ELSE p1
        off == PipeIsOffScreen(p2)
    IN  [objs |-> [st.objs EXCEPT ![i] = p2],
         live |-> IF off THEN ListRemove(st.live, i) ELSE st.live,
         score |-> IF scores THEN st.score + 1 ELSE st.score,
         cues |-> IF scores THEN Append(st.cues, "score") ELSE st.cues,
         removed |-> IF off THEN Append(st.removed, p2.credit) ELSE st.removed]

\* mutant: the loop of update_pipes over self.pipes itself, not the slice
\* copy: i is a position in the live list, which shrinks under the loop
RECURSIVE PipesLoopLive(_, _, _)
PipesLoopLive(st, bird_x, i) ==
    IF i > Len(st.live) THEN st
    ELSE PipesLoopLive(PipeStep(st, bird_x, st.live[i]), bird_x, i + 1)

RECURSIVE PipesLoop(_, _, _)
PipesLoop(st, bird_x, i) ==
    IF i > Len(st.objs) THEN st
    ELSE PipesLoop(PipeStep(st, bird_x, i), bird_x, i + 1)

\* mutant: update_pipes without "self.pipe_timer = 0"
UpdatePipesNoTimerReset(g, gap_y) ==
    IF ~g.game_started \/ g.game_over THEN g
    ELSE
      LET st == PipesLoop([objs |-> g.pipes,
                           live |-> [k \in 1..Len(g.pipes) |-> k],
                           score |-> g.score, cues |-> g.cues,
                           removed |-> g.removed], g.bird.x, 1)
          kept == [k \in 1..Len(st.live) |-> st.objs[st.live[k]]]
          timer == g.pipe_timer + 1
          spawn == timer >= PIPE_INTERVAL
      IN  [g EXCEPT !.pipes = IF spawn
                              THEN Append(kept, PipeInit(SCREEN_WIDTH, gap_y))
                              ELSE kept,
                    !.score = st.score,
                    !.cues = st.cues,
                    !.removed = st.removed,
                    !.pipe_timer = timer]

\* mutant: the spawn test with > for >=
UpdatePipesLateSpawn(g, gap_y) ==
    IF ~g.game_started \/ g.game_over THEN g
    ELSE
      LET st == PipesLoop([objs |-> g.pipes,
                           live |-> [k \in 1..Len(g.pipes) |-> k],
                           score |-> g.score, cues |-> g.cues,
                           removed |-> g.removed], g.bird.x, 1)
          kept == [k \in 1..Len(st.live) |-> st.objs[st.live[k]]]
          timer == g.pipe_timer + 1
          spawn == timer > PIPE_INTERVAL
      IN  [g EXCEPT !.pipes = IF spawn
                              THEN Append(kept, PipeInit(SCREEN_WIDTH, gap_y))
                              ELSE kept,
                    !.score = st.score,
                    !.cues = st.cues,
                    !.removed = st.removed,
                    !.pipe_timer = IF spawn THEN 0 ELSE timer]

\* Game.update_pipes; gap_y is what random.randint returns if a pipe spawns
UpdatePipes(g, gap_y) ==
    IF ~g.game_started \/ g.game_over THEN g
    ELSE
      LET st == PipesLoop([objs |-> g.pipes,
                           live |-> [k \in 1..Len(g.pipes) |-> k],
                           score |-> g.score, cues |-> g.cues,
                           removed |-> g.removed], g.bird.x, 1)
          kept == [k \in 1..Len(st.live) |-> st.objs[st.live[k]]]
          timer == g.pipe_timer + 1
          spawn == timer >= PIPE_INTERVAL
      IN  [g EXCEPT !.pipes = IF spawn
                              THEN Append(kept, PipeInit(SCREEN_WIDTH, gap_y))
                              ELSE kept,
                    !.score = st.score,
                    !.cues = st.cues,
                    !.removed = st.removed,
                    !.pipe_timer = IF spawn THEN 0 ELSE timer]

\* mutant: end_game without "self.game_over = True"
EndGameNoFlag(g) ==
    Play([g EXCEPT !.end_games = @ + 1], "collision")

EndGame(g) ==
    Play([g EXCEPT !.game_over = TRUE, !.end_games = @ + 1], "collision")

\* the pipe loop of check_collisions: end_game and return at the first hit
CheckPipes(g, bird_rect) ==
    IF \E i \in 1..Len(g.pipes) : PipeCollidesWith(g.pipes[i], bird_rect)
    THEN EndGame(g)
    ELSE g

\* mutant: the ceiling branch clamps y and keeps the velocity
CheckCollisionsKeepsVelocity(g) ==
    IF ~g.game_started \/ g.game_over THEN g
    ELSE
      LET bird_rect == g.bird.rect
      IN  IF FloatLE(g.bird.y, g.bird.err, 0)
          THEN CheckPipes([g EXCEPT !.bird.y = 0, !.bird.err = 0], bird_rect)
          ELSE IF FloatGE(g.bird.y, g.bird.err, SCREEN_HEIGHT * Scale)
          THEN EndGame(g)
          ELSE CheckPipes(g, bird_rect)

\* mutant: the ceiling branch returns like the floor branch
CheckCollisionsCeilingReturns(g) ==
    IF ~g.game_started \/ g.game_over THEN g
    ELSE
      LET bird_rect == g.bird.rect
      IN  IF FloatLE(g.bird.y, g.bird.err, 0)
          THEN [g EXCEPT !.bird.y = 0, !.bird.err = 0, !.bird.velocity = 0]
          ELSE IF FloatGE(g.bird.y, g.bird.err, SCREEN_HEIGHT * Scale)
          THEN EndGame(g)
          ELSE CheckPipes(g, bird_rect)

\* Game.check_collisions.  bird_rect is the Rect object Bird.update left:
\* the ceiling branch changes y and velocity but not the rectangle.
CheckCollisions(g) ==
    IF ~g.game_started \/ g.game_over THEN g
    ELSE
      LET bird_rect == g.bird.rect
      IN  IF FloatLE(g.bird.y, g.bird.err, 0)
          THEN CheckPipes([g EXCEPT !.bird.y = 0, !.bird.err = 0,
                                    !.bird.velocity = 0], bird_rect)
          ELSE IF FloatGE(g.bird.y, g.bird.err, SCREEN_HEIGHT * Scale)
          THEN EndGame(g)
          ELSE CheckPipes(g, bird_rect)

\* mutant: update with check_collisions before the moves
GameUpdateCheckFirst(g, gap_y, fl) ==
    LET g0 == CheckCollisions(g)
        g1 == IF g0.game_started /\ ~g0.game_over
              THEN [g0 EXCEPT !.bird = BirdUpdate(g0.bird, fl)]
              ELSE g0
    IN  UpdatePipes(g1, gap_y)

\* mutant: update without the test around self.bird.update()
GameUpdateBirdAlways(g, gap_y, fl) ==
    CheckCollisions(UpdatePipes([g EXCEPT !.bird = BirdUpdate(g.bird, fl)], gap_y))

\* mutant: update that returns at once while a round is Active
GameUpdateSkipsActive(g, gap_y, fl) ==
    IF g.game_started /\ ~g.game_over THEN g
    ELSE CheckCollisions(UpdatePipes(g, gap_y))

\* Game.update; fl are the rounding errors of Bird.update's float sums
GameUpdate(g, gap_y, fl) ==
    LET g1 == IF g.game_started /\ ~g.game_over
              THEN [g EXCEPT !.bird = BirdUpdate(g.bird, fl)]
              ELSE g
    IN  CheckCollisions(UpdatePipes(g1, gap_y))

\* ---------------------------------------------------------------- GPIO
Saturate(t) ==
    IF t > DEBOUNCE_TIME THEN DEBOUNCE_TIME + 1 ELSE t

\* mutant: is_pressed without the debounce comparison
IsPressedNoDebounce(available, since, level) ==
    IF available /\ level = "LOW"
    THEN [ret |-> TRUE, since |-> 0]
    ELSE [ret |-> FALSE, since |-> since]

\* GPIOManager.is_pressed for one outcome of GPIO.input ("LOW", "HIGH" or
\* "error", an exception): the value returned and the new elapsed time
\* since last_press_time.
IsPressed(available, since, level) ==
    IF available /\ level = "LOW" /\ since > DEBOUNCE_TIME
    THEN [ret |-> TRUE, since |-> 0]
    ELSE [ret |-> FALSE, since |-> since]

\* ------------------------------------------------------------- actions
\* The state after Game.__init__, for either outcome of the RPi.GPIO import
\* and of GPIO.setup.  time.time() is far more than DEBOUNCE_TIME above the
\* initial last_press_time of 0.
InitWith(available) ==
    /\ SetGameInit(ResetGame)
    /\ gpio_available = available
    /\ since_press = Saturate(DEBOUNCE_TIME + 1)
    /\ since_accept = Saturate(DEBOUNCE_TIME + 1)
    /\ pressed = FALSE
    /\ pin = "HIGH"
    /\ pc = "input"

\* main after Game() returned and Game.run set running: sounds tells
\* whether SoundManager.__init__ left the sounds enabled
Constructed(sounds) ==
    /\ sounds_enabled = sounds
    /\ running = TRUE
    /\ exit_code = -1
    /\ fault = "none"
    /\ released = <<>>
    /\ stages = <<>>
    /\ attended = TRUE

\* main when Game() raised: "Failed to start game", return 1; run and
\* cleanup are never called
InitFailed ==
    /\ SetGameInit(ResetGame)
    /\ gpio_available = FALSE
    /\ since_press = Saturate(DEBOUNCE_TIME + 1)
    /\ since_accept = Saturate(DEBOUNCE_TIME + 1)
    /\ pressed = FALSE
    /\ pin = "HIGH"
    /\ pc = "exited"
    /\ sounds_enabled = FALSE
    /\ running = FALSE
    /\ exit_code = 1
    /\ fault = "init"
    /\ released = <<>>
    /\ stages = <<>>
    /\ attended = TRUE

Init ==
    InitWith(FALSE) /\ Constructed(TRUE)

\* either outcome of Game() in main
InitRun ==
    \/ Init
    \/ InitFailed

InitGpio ==
    InitWith(TRUE) /\ Constructed(TRUE)

\* a host without RPi.GPIO, whether or not the mixer could be set up
InitSound ==
    \E sounds \in BOOLEAN : InitWith(FALSE) /\ Constructed(sounds)

\* the input schedule of an Active round (see JumpFrames)
InputOffered ==
    ~game_started \/ game_over \/ pipe_timer \in JumpFrames

\* the cues whose playback may fail in one step
Failing(names) ==
    IF sounds_enabled THEN SUBSET names ELSE {{}}

\* the exploration bound on a round (see MaxScore); a round nobody plays
\* is not cut short
RoundBound ==
    (attended /\ game_started /\ ~game_over) => score < MaxScore

\* handle_input, a KEYDOWN event of K_SPACE or K_UP
KeyJump ==
    /\ pc = "input"
    /\ InputOffered
    /\ \E f \in Failing({"jump"}) : SetGame(HandleJump([G EXCEPT !.failing = f]))
    /\ UNCHANGED <<gpio_available, since_press, pc, pin, pressed, since_accept>>
    /\ UNCHANGED <<process, stages, attended>>

\* the same event in a frame outside JumpFrames: a tap five frames before
\* a pipe reaches the bird's box, by a player whose bird is within 32
\* pixels of the ceiling
KeyJumpNearCeiling ==
    /\ pc = "input"
    /\ game_started /\ ~game_over
    /\ pipe_timer = 70
    /\ bird.y <= 32 * Scale
    /\ \E f \in Failing({"jump"}) : SetGame(HandleJump([G EXCEPT !.failing = f]))
    /\ UNCHANGED <<gpio_available, since_press, pc, pin, pressed, since_accept>>
    /\ UNCHANGED <<process, stages, attended>>

\* mutant: a restart that keeps the old pipes
KeyRestartKeepsPipes ==
    /\ pc = "input"
    /\ SetGame(IF game_over THEN [ResetGame EXCEPT !.pipes = pipes] ELSE G)
    /\ UNCHANGED <<gpio_available, since_press, pc, pin, pressed, since_accept>>
    /\ UNCHANGED <<process, stages, attended>>

\* mutant: K_r handled without the "and self.game_over" test
KeyRestartAlways ==
    /\ pc = "input"
    /\ SetGame(ResetGame)
    /\ UNCHANGED <<gpio_available, since_press, pc, pin, pressed, since_accept>>
    /\ UNCHANGED <<process, stages, attended>>

\* handle_input, a KEYDOWN event of K_r
KeyRestart ==
    /\ pc = "input"
    /\ SetGame(IF game_over THEN ResetGame ELSE G)
    /\ UNCHANGED <<gpio_available, since_press, pc, pin, pressed, since_accept>>
    /\ UNCHANGED <<process, stages, attended>>

\* handle_input after the event loop: the GPIO poll, and the return
GpioPoll ==
    /\ pc = "input"
    /\ \E level \in (IF ~gpio_available THEN {pin}
                     ELSE IF InputOffered THEN {"LOW", "HIGH", "error"}
                     ELSE {"HIGH"}) :
         LET r == IsPressed(gpio_available, since_press, level)
         IN  /\ pin' = level
             /\ pressed' = r.ret
             /\ since_press' = r.since
             /\ since_accept' = IF r.ret THEN 0 ELSE since_accept
             /\ \E f \in (IF r.ret THEN Failing({"jump"}) ELSE {{}}) :
                  SetGame(IF r.ret THEN HandleJump([G EXCEPT !.failing = f])
                          ELSE G)
    /\ pc' = "update"
    /\ stages' = <<"input">>
    /\ UNCHANGED <<gpio_available, process, attended>>

\* mutant: the quit request leaves the loop at once ("break")
QuitAtOnce ==
    /\ pc = "input"
    /\ InputOffered
    /\ running' = FALSE
    /\ pc' = "cleanup"
    /\ stages' = <<"input">>
    /\ SetGame(G)
    /\ UNCHANGED <<gpio_available, since_press, pin, pressed, since_accept,
                   sounds_enabled, exit_code, fault, released, attended>>

\* handle_input, a QUIT event or a KEYDOWN of K_ESCAPE: return False at
\* once, the later events and the GPIO poll are skipped; run stores the
\* value and goes on with update
Quit ==
    /\ pc = "input"
    /\ InputOffered
    /\ running' = FALSE
    /\ pc' = "update"
    /\ stages' = <<"input">>
    /\ SetGame(G)
    /\ UNCHANGED <<gpio_available, since_press, pin, pressed, since_accept,
                   sounds_enabled, exit_code, fault, released, attended>>

\* what random.randint can return in this frame: it is called only when a
\* pipe spawns (0 stands for no call)
SpawnGaps ==
    IF game_started /\ ~game_over /\ pipe_timer + 1 >= PIPE_INTERVAL
    THEN GapChoices
    ELSE {0}

\* the rounding errors of this frame's Bird.update, if it runs
FrameErrs ==
    IF game_started /\ ~game_over
    THEN FloatErrs(bird)
    ELSE {[y |-> 0, rect |-> 0]}

\* the cues of this frame's update whose playback may fail: any of those
\* it plays
UpdateFailing(gap_y, fl) ==
    LET cs == GameUpdate(G, gap_y, fl).cues
    IN  Failing({cs[k] : k \in 1..Len(cs)})

\* Game.update
Update ==
    /\ pc = "update"
    /\ RoundBound
    /\ \E gap_y \in SpawnGaps, fl \in FrameErrs :
         \E f \in UpdateFailing(gap_y, fl) :
            SetGame(GameUpdate([G EXCEPT !.failing = f], gap_y, fl))
    /\ pc' = "draw"
    /\ stages' = Append(stages, "update")
    /\ UNCHANGED <<gpio_available, since_press, pin, pressed, since_accept>>
    /\ UNCHANGED <<process, attended>>

\* Game.draw, clock.tick(FPS) and the test of "while running": the
\* simulation state is only read, the frame's time passes, and the next
\* pass starts unless handle_input returned False in this one
Draw ==
    /\ pc = "draw"
    /\ SetGame(G)
    /\ since_press' = Saturate(since_press + FrameMs)
    /\ since_accept' = Saturate(since_accept + FrameMs)
    /\ pc' = IF running THEN "input" ELSE "cleanup"
    /\ stages' = IF running THEN <<>> ELSE Append(stages, "draw")
    /\ UNCHANGED <<gpio_available, pin, pressed>>
    /\ UNCHANGED <<process, attended>>

\* the exceptions the handlers of Game.run catch
LoopFaults ==
    {"Exception", "KeyboardInterrupt"}

\* a stage of a frame raises: the except clauses of Game.run print, the
\* stage and the rest of the frame are abandoned
LoopError ==
    /\ pc \in {"input", "update", "draw"}
    /\ InputOffered
    /\ \E e \in LoopFaults : fault' = e
    /\ pc' = "cleanup"
    /\ SetGame(G)
    /\ UNCHANGED <<gpio_available, since_press, pin, pressed, since_accept,
                   sounds_enabled, running, exit_code, released, stages,
                   attended>>

\* what Game.cleanup releases: GPIOManager.cleanup calls GPIO.cleanup when
\* the pin was claimed, then pygame.quit
CleanupReleases(available) ==
    (IF available THEN <<"pins">> ELSE <<>>) \o <<"display">>

\* the return code of main after Game.run returned
MainReturns(f) ==
    0

\* the finally clause of Game.run, then main's "return 0" and sys.exit
Finish ==
    /\ pc = "cleanup"
    /\ released' = released \o CleanupReleases(gpio_available)
    /\ exit_code' = MainReturns(fault)
    /\ pc' = "exited"
    /\ SetGame(G)
    /\ UNCHANGED <<gpio_available, since_press, pin, pressed, since_accept,
                   sounds_enabled, running, fault, stages, attended>>

\* keyboard play: RPi.GPIO is not importable
Next ==
    \/ KeyJump
    \/ KeyRestart
    \/ GpioPoll
    \/ Update
    \/ Draw

Spec ==
    Init /\ [][Next]_vars

\* touch-sensor play on the Pi: jumps come from the pin only
NextGpio ==
    \/ KeyRestart
    \/ GpioPoll
    \/ Update
    \/ Draw

SpecGpio ==
    InitGpio /\ [][NextGpio]_vars

\* keyboard play with the taps near the ceiling
NextCeiling ==
    \/ KeyJump
    \/ KeyJumpNearCeiling
    \/ KeyRestart
    \/ GpioPoll
    \/ Update
    \/ Draw

SpecCeiling ==
    Init /\ [][NextCeiling]_vars

\* keyboard play with either outcome of the mixer's set-up
SpecSound ==
    InitSound /\ [][Next]_vars

\* The player lets go of the controls for good while a round is Active:
\* from now on the event queue holds no K_SPACE or K_UP event.
Leave ==
    /\ pc = "input"
    /\ attended
    /\ game_started /\ ~game_over
    /\ attended' = FALSE
    /\ SetGame(G)
    /\ UNCHANGED <<gpio_available, since_press, pc, pin, pressed, since_accept,
                   process, stages>>

\* handle_input, a KEYDOWN event of K_SPACE or K_UP from a player who is
\* at the controls (see LeaveScore)
KeyJumpAttended ==
    attended /\ score < LeaveScore /\ KeyJump

\* keyboard play that the player may abandon in any frame of a round
NextUnattended ==
    \/ KeyJumpAttended
    \/ KeyRestart
    \/ Leave
    \/ GpioPoll
    \/ Update
    \/ Draw

\* A pass of the loop of Game.run moves on to its next stage.  Of the steps
\* of NextUnattended exactly GpioPoll, Update and Draw change pc, GpioPoll
\* and Draw can always be taken, and Update whenever RoundBound holds.
FrameAdvances ==
    /\ pc = "update" => RoundBound
    /\ \E q \in {"input", "update", "draw"} \ {pc} : pc' = q

\* The loop of Game.run goes on: "while running" has no other exit here,
\* handle_input drains a finite event queue, and update and draw return.
SpecUnattended ==
    Init /\ [][NextUnattended]_vars /\ WF_pc(FrameAdvances)

\* keyboard play from main to sys.exit: quit requests, exceptions in the
\* loop and a failing Game() included
NextRun ==
    \/ KeyJump
    \/ KeyRestart
    \/ GpioPoll
    \/ Quit
    \/ Update
    \/ Draw
    \/ LoopError
    \/ Finish

SpecRun ==
    InitRun /\ [][NextRun]_vars

\* ------------------------------------------------------ claim helpers
Idle == ~game_started
Active == game_started /\ ~game_over
Over == game_over

\* a step that is the simulation step of a frame / the GPIO poll of a frame
UpdateStep == pc = "update" /\ pc' = "draw"
PollStep == pc = "input" /\ pc' = "update" /\ running'

\* the simulation state right after construction, written out
SpawnBird ==
    [x |-> 200, y |-> 3000, err |-> 0, velocity |-> 0, size |-> 30,
     rect |-> [x |-> 185, y |-> 285, w |-> 30, h |-> 30]]

\* -------------------------------------------------------------- claims
\* C1: round-over is terminal.  In every step that starts with the over
\* flag set and is not the reset, whether a frame's update, a jump input or
\* anything else, the score, the live pipes (so every pipe's x), the spawn
\* timer and the bird (y, velocity) are unchanged, the flag stays set and no
\* cue is requested.
C1_OverIsTerminal ==
    [][game_over =>
         \/ game_over /\ KeyRestart
         \/ /\ game_over'
            /\ UNCHANGED <<score, pipes, pipe_timer, bird, game_started>>
            /\ cues' = <<>>]_vars

\* C1 witness: a frame's update has run on a round that was already over
\* (it requested no cue), with pipes on screen and a non-zero score.
C1_Witness ==
    /\ game_over
    /\ pc = "draw"
    /\ cues = <<>>
    /\ pipes # <<>>
    /\ score > 0

\* C2: the score increments exactly once per obstacle.  Every pipe has
\* been credited exactly when its right edge is left of the bird's x (so in
\* the first such frame) and at most once, every removed pipe was credited
\* exactly once, and the score is the number of credited pipes of the round,
\* live or removed.
C2_ScoreOncePerObstacle ==
    /\ \A i \in 1..Len(pipes) :
         /\ pipes[i].passed <=> (pipes[i].x + pipes[i].width < bird.x)
         /\ pipes[i].credit = (IF pipes[i].passed THEN 1 ELSE 0)
    /\ \A k \in 1..Len(removed) : removed[k] = 1
    /\ score = Cardinality({i \in 1..Len(pipes) : pipes[i].passed}) + Len(removed)

\* C2 witness: one pipe lived its whole life (scored, then removed) and a
\* second one has been scored.
C2_Witness ==
    /\ Len(removed) = 1
    /\ score = 2
    /\ \E i \in 1..Len(pipes) : pipes[i].passed

\* C3: reset restores the initial round state.  Every restart taken from an
\* Over state leaves score 0, no pipes, both flags down, timer 0 and the bird
\* at (SCREEN_WIDTH/4, SCREEN_HEIGHT/2) with zero velocity.
C3_ResetRestores ==
    [][(game_over /\ (KeyRestart \/ ~game_over')) =>
         /\ score' = 0
         /\ pipes' = <<>>
         /\ ~game_started'
         /\ ~game_over'
         /\ pipe_timer' = 0
         /\ bird' = SpawnBird]_vars

\* C3 witness: an Idle round less than the debounce time after an accepted
\* press.  The first press of an Idle round starts it, so this state is
\* only reached by a reset of a round that was over.
C3_Witness ==
    /\ ~game_started
    /\ ~game_over
    /\ since_press <= DEBOUNCE_TIME
    /\ score = 0
    /\ pipes = <<>>

\* C4: the round state machine.  Idle becomes Active only by a jump input
\* (a jump key or an accepted pin press); Active becomes Over only in a
\* simulation step that ends with the bird at or below the floor or with its
\* rectangle on a live pipe; Over is left only by a restart request, which
\* leads to Idle; a restart request outside Over changes nothing; the
\* started flag is cleared only by that reset; a jump input never leaves
\* Over.
BirdOnFloor(b) ==
    b.y > 600 * Scale \/ (b.y = 600 * Scale /\ b.err >= 0)

BirdOnPipe(b, ps) ==
    \E i \in 1..Len(ps) :
        \/ colliderect(b.rect, ps[i].top_rect)
        \/ colliderect(b.rect, ps[i].bottom_rect)

C4_RoundStateMachine ==
    [][/\ (~game_started /\ game_started') =>
             (~game_over' /\ (KeyJump \/ (PollStep /\ pressed')))
       /\ (game_started /\ ~game_started') => (game_over /\ KeyRestart)
       /\ (~game_over /\ game_over') =>
             /\ game_started
             /\ UpdateStep
             /\ BirdOnFloor(bird') \/ BirdOnPipe(bird', pipes')
       /\ (game_over /\ ~game_over') => (KeyRestart /\ ~game_started')
       /\ (~game_over /\ KeyRestart) =>
             UNCHANGED <<bird, pipes, score, game_over, game_started, pipe_timer>>
       /\ (game_over /\ (KeyJump \/ PollStep)) => game_over']_vars

\* C4 witness: a round that went Idle, Active, Over (ended on a pipe, after
\* scoring) and now takes input, a restart request included.
C4_Witness ==
    /\ game_over
    /\ game_started
    /\ pc = "input"
    /\ score >= 1
    /\ ~BirdOnFloor(bird)
    /\ BirdOnPipe(bird, pipes)

\* C5: in every Active frame Bird.update leaves velocity
\* min(velocity + GRAVITY, 10) and y advanced by velocity + GRAVITY (the
\* value before the clamp); the frame ends with exactly these values unless
\* the ceiling branch of check_collisions then zeroes both; so velocity is
\* at most 10 at all times.
Min(a, b) ==
    IF a <= b THEN a ELSE b

C5_GravityClamp ==
    /\ [](Active => \A fl \in FloatErrs(bird) :
            /\ BirdUpdate(bird, fl).velocity = Min(bird.velocity + GRAVITY, 10 * Scale)
            /\ BirdUpdate(bird, fl).y = bird.y + bird.velocity + GRAVITY)
    /\ [](bird.velocity <= 10 * Scale)
    /\ [][(Active /\ UpdateStep) =>
            \/ /\ bird.y + bird.velocity + GRAVITY <= 0
               /\ bird'.y = 0
               /\ bird'.velocity = 0
            \/ /\ bird.y + bird.velocity + GRAVITY >= 0
               /\ bird'.velocity = Min(bird.velocity + GRAVITY, 10 * Scale)
               /\ bird'.y = bird.y + bird.velocity + GRAVITY]_vars

\* C5 witness: an Active frame has ended falling at the clamped speed,
\* 10.8 pixels below where it started.
C5_Witness ==
    /\ Active
    /\ pc = "draw"
    /\ bird.velocity = 10 * Scale
    /\ bird.y > 400 * Scale

\* C6: a jump overwrites the velocity.  After any step that requested the
\* jump cue the velocity is exactly JUMP_STRENGTH, whatever it was and
\* however many jumps the frame had, and the step changed nothing else of
\* the bird (y and the rectangle are as before).
C6_JumpOverwrites ==
    /\ [](cues = <<"jump">> => bird.velocity = -8 * Scale)
    /\ [][(~game_over /\ (KeyJump \/ (PollStep /\ pressed'))) =>
            /\ cues' = <<"jump">>
            /\ bird'.velocity = -8 * Scale
            /\ bird'.y = bird.y
            /\ bird'.rect = bird.rect
            /\ bird'.x = bird.x]_vars

\* C6 witness: a jump taken in mid-flight, when the velocity before it was
\* not the jump constant.
C6_Witness ==
    /\ cues = <<"jump">>
    /\ pc = "input"
    /\ pipe_timer > 0
    /\ bird.y < 300 * Scale
    /\ bird.velocity = -8 * Scale

\* C7: obstacle data.  In every reachable state every pipe has width 80,
\* gap height 200 and a gap centre in [150, 450]: its two rectangles are
\* those built at construction from that centre (heights of at least 50),
\* moved to the pipe's x.  From step to step a pipe that stays live keeps
\* all of it, the x of the pipe and of both rectangles going down by
\* PIPE_SPEED in an Active frame and staying put otherwise.
PipeGeometry(p) ==
    /\ p.width = 80
    /\ p.gap_height = 200
    /\ p.gap_y >= 200 \div 2 + 50
    /\ p.gap_y <= 600 - 200 \div 2 - 50
    /\ p.top_rect = [x |-> p.x, y |-> 0, w |-> 80, h |-> p.gap_y - 100]
    /\ p.bottom_rect = [x |-> p.x, y |-> p.gap_y + 100, w |-> 80,
                        h |-> 600 - (p.gap_y + 100)]
    /\ p.top_rect.h >= 50
    /\ p.bottom_rect.h >= 50
    /\ p.bottom_rect.y + p.bottom_rect.h = 600

\* the pipes of this state that are still live after an Active frame
Survivors ==
    SelectSeq(pipes, LAMBDA p : ~(p.x - 3 + p.width < 0))

\* q is pipe p one step later, dx to the left; the scored flag is as before
\* (flag_fixed) or as before or newly set
SamePipe(p, q, dx, flag_fixed) ==
    /\ q.x = p.x - dx
    /\ q.top_rect.x = q.x
    /\ q.bottom_rect.x = q.x
    /\ q.gap_y = p.gap_y
    /\ q.width = p.width
    /\ q.gap_height = p.gap_height
    /\ q.top_rect.y = p.top_rect.y
    /\ q.top_rect.w = p.top_rect.w
    /\ q.top_rect.h = p.top_rect.h
    /\ q.bottom_rect.y = p.bottom_rect.y
    /\ q.bottom_rect.w = p.bottom_rect.w
    /\ q.bottom_rect.h = p.bottom_rect.h
    /\ IF flag_fixed THEN q.passed = p.passed ELSE (p.passed => q.passed)

PipesStep(flag_fixed) ==
    IF Active /\ UpdateStep
    THEN /\ Len(pipes') \in {Len(Survivors), Len(Survivors) + 1}
         /\ \A i \in 1..Len(Survivors) :
                SamePipe(Survivors[i], pipes'[i], 3, flag_fixed)
         /\ Len(pipes') = Len(Survivors) + 1 =>
                /\ pipes'[Len(pipes')].x = 800
                /\ ~pipes'[Len(pipes')].passed
    ELSE \/ pipes' = <<>> /\ game_over /\ ~game_over'
         \/ /\ Len(pipes') = Len(pipes)
            /\ \A i \in 1..Len(pipes) : SamePipe(pipes[i], pipes'[i], 0, flag_fixed)

\* C7 as stated: x (with the rectangles' x) is the only pipe data that ever
\* changes after construction, the scored flag included.
C7_OnlyXChanges ==
    /\ [](\A i \in 1..Len(pipes) : PipeGeometry(pipes[i]))
    /\ [][PipesStep(TRUE)]_vars

\* C7 as amended: besides x, the scored flag changes, from false to true
\* only.
C7_OnlyXAndFlagChange ==
    /\ [](\A i \in 1..Len(pipes) : PipeGeometry(pipes[i]))
    /\ [][PipesStep(FALSE)]_vars

\* C7 witness: three live pipes with both gap centres among them, the
\* oldest one scored.
C7_Witness ==
    /\ Len(pipes) = 3
    /\ pipes[1].passed
    /\ pipes[1].x < 200 - 80
    /\ {pipes[i].gap_y : i \in 1..3} = {150, 450}

\* C8: floor contact is terminal and cued once.  An Active frame whose
\* bird ends at y >= SCREEN_HEIGHT sets the over flag in that frame and
\* requests the collision cue once; the cue is requested only by a step
\* that takes the round from Active to Over; end_game has run once in a
\* round that is over and not at all in one that is not; so no frame ends
\* Active with the bird at the floor.
CueCount(cs, name) ==
    Cardinality({k \in 1..Len(cs) : cs[k] = name})

C8_FloorEndsRoundOnce ==
    /\ [](end_games = (IF game_over THEN 1 ELSE 0))
    /\ [](Active => ~BirdOnFloor(bird))
    /\ [][/\ (Active /\ UpdateStep /\ BirdOnFloor(bird'))
               => (game_over' /\ CueCount(cues', "collision") = 1)
          /\ CueCount(cues', "collision") > 0
               => (~game_over /\ game_over' /\ CueCount(cues', "collision") = 1)]_vars

\* C8 witness: the frame that took the bird to the floor has just ended
\* the round, with one collision cue, and no pipe was hit.
C8_Witness ==
    /\ game_over
    /\ pc = "draw"
    /\ BirdOnFloor(bird)
    /\ cues = <<"collision">>
    /\ end_games = 1
    /\ ~BirdOnPipe(bird, pipes)

\* C9: the soft ceiling.  An Active frame whose bird is at y <= 0 after
\* Bird.update, with the rectangle Bird.update computed on no live pipe,
\* ends with y = 0, velocity = 0 and the round still Active; so y >= 0 at
\* the end of every frame.
C9_SoftCeiling ==
    /\ [](bird.y > 0 \/ (bird.y = 0 /\ bird.err >= 0))
    /\ [][(/\ Active
           /\ UpdateStep
           /\ \/ bird.y + bird.velocity + GRAVITY < 0
              \/ bird.y + bird.velocity + GRAVITY = 0 /\ bird'.err <= 0
           /\ ~BirdOnPipe(bird', pipes'))
            => /\ bird'.y = 0
               /\ bird'.velocity = 0
               /\ game_started'
               /\ ~game_over']_vars

\* C9 witness: a frame has ended with the bird clamped at the ceiling, the
\* round Active, while a pipe is live.
C9_Witness ==
    /\ Active
    /\ pc = "draw"
    /\ bird.y = 0
    /\ bird.velocity = 0
    /\ bird.rect.y < -15
    /\ pipes # <<>>

\* C10: debounce.  is_pressed returns True only when more than
\* DEBOUNCE_TIME has passed since it last returned True, so two accepted
\* presses are at least 200 ms apart, also with the pin held low; a poll
\* that does not read the pin low returns False and leaves last_press_time
\* alone; and a jump is made by the poll only when it accepted a press.
C10_Debounce ==
    [][PollStep =>
         /\ pressed' => (pin' = "LOW" /\ since_accept >= 200 /\ since_accept' = 0)
         /\ pin' # "LOW" => (~pressed' /\ since_press' = since_press)
         /\ ~pressed' => (since_press' = since_press /\ cues' = <<>> /\ bird' = bird)
         /\ (pressed' /\ ~game_over) => cues' = <<"jump">>]_vars

\* C10 witness: the pin read low exactly 200 ms after the last accepted
\* press, and the press was rejected.
C10_Witness ==
    /\ pc = "update"
    /\ pin = "LOW"
    /\ ~pressed
    /\ since_press = 200
    /\ since_accept = 200

\* C11: an exception raised inside the main loop, in the input handling,
\* the simulation or the drawing of a frame, stops the loop, cleanup runs
\* exactly once (the pin claims, if any, then the display and audio), and
\* the process exits with a non-zero code.
C11_LoopErrorExitsNonZero ==
    (pc = "exited" /\ fault = "Exception")
        => /\ released = CleanupReleases(gpio_available)
           /\ exit_code > 0

\* C12: cancellation is tested once per frame.  The loop flag drops only
\* in the input handling of a frame and is never raised again; the frame
\* in which it dropped still runs its simulation step (an Active round
\* moves: the spawn timer advances and the bird takes its physics step)
\* and its draw; no later frame starts; cleanup then runs once and the
\* process exits with 0.  A failing Game() exits with 1.
C12_QuitAfterWholeFrame ==
    /\ [][(running /\ ~running') => (pc = "input" /\ pc' = "update")]_vars
    /\ [][~running => ~running']_vars
    /\ []((~running /\ fault # "init")
            => pc \in {"update", "draw", "cleanup", "exited"})
    /\ [][(~running /\ UpdateStep /\ Active)
            => /\ pipe_timer' = (pipe_timer + 1) % PIPE_INTERVAL
               /\ bird'.y \in {0, bird.y + bird.velocity + GRAVITY}]_vars
    /\ []((pc = "exited" /\ fault = "none")
            => /\ ~running
               /\ stages = <<"input", "update", "draw">>
               /\ released = CleanupReleases(gpio_available)
               /\ exit_code = 0)
    /\ [](fault = "init" => (pc = "exited" /\ exit_code = 1 /\ released = <<>>))
    /\ [](pc = "exited" <=> exit_code >= 0)

\* C12 witness: the process has exited with 0 after a quit request made
\* in the middle of a round, with pipes on screen.
C12_Witness ==
    /\ pc = "exited"
    /\ fault = "none"
    /\ exit_code = 0
    /\ game_started
    /\ ~game_over
    /\ Len(pipes) >= 2
    /\ released = <<"display">>

\* the simulation fields of a Game record
Sim(g) ==
    <<g.bird, g.pipes, g.score, g.game_over, g.game_started, g.pipe_timer>>

\* the Game record of the current state on a host where every cue sounds
AllSounding ==
    [G EXCEPT !.sounds_enabled = TRUE, !.failing = {}]

\* C13: sound failures never interrupt the frame.  Whether the sounds are
\* enabled, were disabled at start-up, or a cue's playback fails, every
\* jump step and every simulation step (scoring and round-over included)
\* completes and leaves exactly the simulation state it leaves when every
\* cue sounds; a step that requested the jump, score or collision cue has
\* jumped, scored or ended the round whether or not the cue sounded; with
\* the sounds disabled no cue sounds; and sounds once disabled stay
\* disabled.
C13_SoundFailuresAreSilent ==
    /\ [][~sounds_enabled => ~sounds_enabled']_vars
    /\ [](~sounds_enabled => played = <<>>)
    /\ [](Len(played) <= Len(cues))
    /\ [][(pc = "input" /\ pc' = "input" /\ cues' # <<>>)
            => /\ <<bird', pipes', score', game_over', game_started', pipe_timer'>> = Sim(HandleJump(AllSounding))
               /\ bird'.velocity = JUMP_STRENGTH
               /\ game_started']_vars
    /\ [][UpdateStep
            => /\ \E gap_y \in SpawnGaps, fl \in FrameErrs :
                    <<bird', pipes', score', game_over', game_started', pipe_timer'>> = Sim(GameUpdate(AllSounding, gap_y, fl))
               /\ score' = score + CueCount(cues', "score")
               /\ CueCount(cues', "collision") > 0 => game_over']_vars

\* C13 witness: the step that ended a round with a score has completed
\* although the collision cue it requested failed to play.
C13_Witness ==
    /\ sounds_enabled
    /\ pc = "draw"
    /\ game_over
    /\ score > 0
    /\ cues = <<"collision">>
    /\ played = <<>>

\* C14: no simulation while Idle.  A frame's update in a round that has
\* not started changes nothing of the simulation, and every Idle state has
\* no pipes, score 0, spawn timer 0 and the bird at the spawn position with
\* zero velocity.
C14_IdleIsStill ==
    /\ [](Idle => /\ pipes = <<>>
                  /\ score = 0
                  /\ pipe_timer = 0
                  /\ ~game_over
                  /\ bird = SpawnBird)
    /\ [][(Idle /\ UpdateStep)
            => UNCHANGED <<bird, pipes, score, pipe_timer, game_started,
                           game_over>>]_vars

\* C14 witness: the update of an Idle frame has run in a round reached by
\* a restart (a press was accepted less than the debounce time ago, and
\* the first press of an Idle round would have started it).
C14_Witness ==
    /\ Idle
    /\ pc = "draw"
    /\ since_press > 0
    /\ since_press <= DEBOUNCE_TIME

\* C15: spawn cadence.  The spawn timer goes up by one in every Active
\* frame's update and is otherwise only changed by the reset, to 0; the
\* update in which it reaches 120 sets it to 0 and appends one new pipe at
\* x = 800, not advanced in that frame, and no other update appends a
\* pipe; so the newest pipe is as many steps from 800 as the timer says,
\* and 0 <= timer < 120 always.
C15_SpawnCadence ==
    /\ [](pipe_timer >= 0 /\ pipe_timer < 120)
    /\ [](pipes # <<>> => pipes[Len(pipes)].x = 800 - 3 * pipe_timer)
    /\ [][IF Active /\ UpdateStep
          THEN /\ pipe_timer' = (IF pipe_timer + 1 = 120 THEN 0 ELSE pipe_timer + 1)
               /\ Len(pipes') + Len(removed') - Len(pipes) - Len(removed)
                    = (IF pipe_timer + 1 = 120 THEN 1 ELSE 0)
               /\ pipe_timer + 1 = 120
                    => /\ pipes'[Len(pipes')].x = 800
                       /\ pipes'[Len(pipes')].top_rect.x = 800
                       /\ ~pipes'[Len(pipes')].passed
          ELSE \/ pipe_timer' = pipe_timer /\ Len(pipes') = Len(pipes)
               \/ game_over /\ pipe_timer' = 0 /\ pipes' = <<>>]_vars

\* C15 witness: the 240th Active frame of a round has just spawned the
\* second pipe, 360 pixels behind the first.
C15_Witness ==
    /\ pc = "draw"
    /\ pipe_timer = 0
    /\ Len(pipes) = 2
    /\ pipes[2].x = 800
    /\ pipes[1].x = 440
    /\ removed = <<>>

\* C16: removal during traversal loses nothing.  In every Active frame
\* each pipe live at its start whose right edge stays at or right of 0 is
\* live after it, in the same order and exactly PIPE_SPEED further left,
\* also when another pipe is removed in that frame; exactly the pipes whose
\* right edge goes below 0 are removed; so every live pipe has
\* x + width >= 0.
C16_RemovalLosesNothing ==
    /\ [](\A i \in 1..Len(pipes) : pipes[i].x + pipes[i].width >= 0)
    /\ [][(Active /\ UpdateStep)
            => /\ Len(pipes') >= Len(Survivors)
               /\ \A i \in 1..Len(Survivors) :
                    /\ pipes'[i].x = Survivors[i].x - PIPE_SPEED
                    /\ pipes'[i].gap_y = Survivors[i].gap_y
               /\ Len(removed') - Len(removed) = Len(pipes) - Len(Survivors)
               /\ \A i \in 1..Len(pipes') :
                    pipes'[i].x = 800 \/ \E j \in 1..Len(pipes) :
                                            pipes'[i].x = pipes[j].x - PIPE_SPEED]_vars

\* C16 witness: the frame that removed the first pipe has advanced the
\* two pipes behind it (the second stands 174 frames from its spawn).
C16_Witness ==
    /\ pc = "draw"
    /\ Len(removed) = 1
    /\ Len(pipes) = 2
    /\ pipes[1].x = 800 - 3 * 174
    /\ pipes[2].x = pipes[1].x + 360

\* C17: input, then simulation, then presentation.  The stages of a frame
\* run in this order; a jump accepted in the input stage is applied by the
\* same frame's update, which starts from velocity JUMP_STRENGTH and moves
\* y up by 7.2 (the rectangle with it; the ceiling branch may then set y
\* to 0), so no frame ends with the jump velocity still pending; the round
\* ends in an update exactly when the bird and pipes as moved by that
\* update are on the floor or in contact; and the draw changes no
\* simulation state.
C17_FrameOrdering ==
    /\ [](/\ pc = "input" => stages = <<>>
          /\ pc = "update" => stages = <<"input">>
          /\ pc = "draw" => stages = <<"input", "update">>)
    /\ [](pc = "draw" => bird.velocity # JUMP_STRENGTH)
    /\ [][(pc = "input" /\ cues' = <<"jump">>)
            => (Active' /\ bird'.velocity = JUMP_STRENGTH)]_vars
    /\ [][(UpdateStep /\ Active /\ bird.velocity = JUMP_STRENGTH)
            => /\ bird'.velocity \in {JUMP_STRENGTH + GRAVITY, 0}
               /\ bird'.y \in {bird.y - 72, 0}
               /\ bird'.rect.y \in {ToInt(bird.y - 72 - 150, e) : e \in {-1, 0, 1}}
               /\ bird'.velocity = 0 => bird.y - 72 <= 0]_vars
    /\ [][(UpdateStep /\ Active)
            => (game_over' <=> (BirdOnFloor(bird') \/ BirdOnPipe(bird', pipes')))]_vars
    /\ [][pc = "draw"
            => UNCHANGED <<bird, pipes, score, pipe_timer, game_started,
                           game_over>>]_vars

\* C17 witness: a frame in which a jump was taken in mid-flight, among
\* pipes, has ended with the bird 7.2 pixels higher.
C17_Witness ==
    /\ Active
    /\ pc = "draw"
    /\ bird.velocity = JUMP_STRENGTH + GRAVITY
    /\ bird.y % Scale # 0
    /\ pipes # <<>>
    /\ score = 1

\* C18: shape of the live sequence.  Consecutive live pipes are exactly
\* 120 * PIPE_SPEED = 360 pixels apart, the older one to the left, so the
\* sequence is in strictly increasing x order, and it never holds more
\* than 3 pipes.
C18_LiveSequenceShape ==
    /\ \A i \in 1..(Len(pipes) - 1) : pipes[i + 1].x = pipes[i].x + 360
    /\ \A i, j \in 1..Len(pipes) : i < j => pipes[i].x < pipes[j].x
    /\ Len(pipes) <= 3

\* C18 witness: three live pipes, the oldest with its left edge already
\* off the screen.
C18_Witness ==
    /\ Len(pipes) = 3
    /\ pipes[1].x < 0
    /\ pipes[3].x = pipes[1].x + 720

\* the square of side BIRD_SIZE centred on the bird's (x, y), in tenths of
\* a pixel, overlaps rectangle r
SquareOverlaps(b, r) ==
    /\ (b.x - 15) * Scale < (r.x + r.w) * Scale
    /\ r.x * Scale < (b.x + 15) * Scale
    /\ b.y - 15 * Scale < (r.y + r.h) * Scale
    /\ r.y * Scale < b.y + 15 * Scale

\* that square as pygame.Rect holds it: the top edge y - 15 truncated
\* toward zero to a whole pixel
CurrentBox(b) ==
    [x |-> b.x - 15, y |-> ToInt(b.y - 15 * Scale, b.err), w |-> 30, h |-> 30]

\* C19 as stated: whenever the round is Active at the end of a frame, the
\* square of side BIRD_SIZE centred on the bird's current (x, y) overlaps
\* neither rectangle of any live pipe.
C19_NoOverlapSurvives ==
    (Active /\ pc = "draw")
        => \A i \in 1..Len(pipes) :
              /\ ~SquareOverlaps(bird, pipes[i].top_rect)
              /\ ~SquareOverlaps(bird, pipes[i].bottom_rect)

\* C19 as amended: the square with its top edge truncated to a whole
\* pixel overlaps neither rectangle, also in a frame whose ceiling branch
\* moved y after the rectangle was computed; the exact square never
\* overlaps an upper rectangle and reaches less than one pixel into a
\* lower one.
C19_NoBoxOverlapSurvives ==
    (Active /\ pc = "draw")
        => \A i \in 1..Len(pipes) :
              /\ ~colliderect(CurrentBox(bird), pipes[i].top_rect)
              /\ ~colliderect(CurrentBox(bird), pipes[i].bottom_rect)
              /\ ~SquareOverlaps(bird, pipes[i].top_rect)
              /\ SquareOverlaps(bird, pipes[i].bottom_rect)
                   => ~FloatGE(bird.y + 15 * Scale, bird.err,
                               (pipes[i].bottom_rect.y + 1) * Scale)

\* C19 witness: a frame has ended Active with the bird inside a pipe's
\* gap, its exact square half a pixel or more into the lower rectangle.
C19_Witness ==
    /\ Active
    /\ pc = "draw"
    /\ \E i \in 1..Len(pipes) :
          /\ SquareOverlaps(bird, pipes[i].bottom_rect)
          /\ bird.y + 15 * Scale - pipes[i].bottom_rect.y * Scale >= 5
          /\ ~colliderect(bird.rect, pipes[i].bottom_rect)

\* C20: scoring does not wait for clearance.  A pipe gets its scored flag
\* in the update that first takes its right edge strictly left of the
\* bird's centre x, when that edge is still right of the left edge of the
\* bird's box; the score goes up in that update also when the same update
\* ends the round; so a round can end on a pipe that is already scored,
\* and the final score counts it.
C20_ScoredBeforeClearance ==
    /\ [][(Active /\ UpdateStep)
            => /\ \A i \in 1..Len(Survivors) :
                    (pipes'[i].passed /\ ~Survivors[i].passed)
                        => /\ pipes'[i].x + pipes'[i].width < bird.x
                           /\ Survivors[i].x + Survivors[i].width >= bird.x
                           /\ pipes'[i].x + pipes'[i].width > bird.x - 15
                           /\ score' = score + 1
               /\ (\E i \in 1..Len(Survivors) :
                      /\ pipes'[i].x + pipes'[i].width < bird.x
                      /\ Survivors[i].x + Survivors[i].width >= bird.x)
                    => (score' = score + 1 /\ cues'[1] = "score")]_vars
    /\ [](\A i \in 1..Len(pipes) :
            (pipes[i].x + pipes[i].width < bird.x) => pipes[i].passed)

\* C20 witness: the update that scored a pipe has ended the round on that
\* very pipe, and the final score counts it.
C20_Witness ==
    /\ game_over
    /\ pc = "draw"
    /\ cues = <<"score", "collision">>
    /\ score = 1
    /\ ~BirdOnFloor(bird)
    /\ \E i \in 1..Len(pipes) :
          /\ pipes[i].passed
          /\ pipes[i].x + pipes[i].width = bird.x - 1
          /\ PipeCollidesWith(pipes[i], bird.rect)

\* C21: an unattended round always ends.  Once no jump input is accepted
\* any more and the frames go on, every Active round reaches Over, by the
\* floor or by a pipe; and in every step that leaves a round for Idle the
\* round was Over and the step is the restart request.
C21_UnattendedRoundEnds ==
    /\ (Active /\ ~attended) ~> Over
    /\ [][(~Idle /\ Idle') => (Over /\ KeyRestart)]_vars

\* C21 witness: a round nobody played any more has ended on a pipe, above
\* the floor, in the update that has just run.
C21_Witness ==
    /\ ~attended
    /\ game_over
    /\ pc = "draw"
    /\ cues = <<"collision">>
    /\ ~BirdOnFloor(bird)
    /\ \E i \in 1..Len(pipes) : PipeCollidesWith(pipes[i], bird.rect)

====
